---- MODULE Spec2Model ----
(* A state-machine model of roaddashboard/dashboard.py: widgets with a     *)
(* refresh policy, dashboards holding an insertion-ordered mapping of      *)
(* widgets, and the DashboardManager registry with its auto-refresh loop.  *)
EXTENDS Integers, Sequences, FiniteSets, TLC

(* ------------------------------------------------------------------ *)
(* Bounds of the model                                                 *)
(* ------------------------------------------------------------------ *)
MaxTime == 3
MaxInterval == 2
MaxValue == 2
MaxEntries == 3
MaxCalls == 3
MaxRows == 2

(* ------------------------------------------------------------------ *)
(* Values                                                              *)
(* ------------------------------------------------------------------ *)
\* Python's None, for a string, a data value and a time.
None == "None"
NoValue == 0
Never == -1
\* A deleted entry of a dict, which keeps its place until the dict is rebuilt.
Tomb == "<deleted>"

\* The widgets, in the order a builder is given them.
BuildOrder == <<"users", "revenue", "chart">>
WidgetIds == {BuildOrder[i] : i \in 1..Len(BuildOrder)}
DashIds == {"main", "ops"}
LookupIds == DashIds \cup {"missing"}
Values == 1..MaxValue
Errors == {"", "timeout"}
Intervals == 0..MaxInterval
\* The flows of control: a caller of the API, and the coroutine of each call
\* of start_auto_refresh.
Loops == {"loop1", "loop2"}
Api == "api"
Tasks == Loops \cup {Api}

RefreshMode == {"manual", "interval", "realtime"}

VARIABLES
    now,              \* the wall clock read by datetime.now(), in seconds
    refresh_mode,     \* WidgetConfig.refresh_mode of each widget
    refresh_interval, \* WidgetConfig.refresh_interval of each widget
    last_data,        \* Widget._last_data
    last_refresh,     \* Widget._last_refresh
    widgets,          \* Dashboard.widgets: the dict's entries, in insertion order
    dashboards,       \* DashboardManager.dashboards: the registry's keys, in order
    running,          \* DashboardManager._running
    task,             \* the position of each flow of control
    ev,               \* the last operation performed and what it returned
    stopCalled,       \* history: the latest start/stop call was stop_auto_refresh
    last_attempt,     \* history: when refresh() of each widget last returned
    builder,          \* DashboardBuilder: self.widgets and self._layout
    product,          \* the Dashboard that build() returned: its dict of widgets
    calls             \* history: the ids and the rows the builder was given

vars == <<now, refresh_mode, refresh_interval, last_data, last_refresh,
          widgets, dashboards, running, task, ev, stopCalled, last_attempt,
          builder, product, calls>>

config == <<refresh_mode, refresh_interval>>
wstate == <<last_data, last_refresh>>
history == <<stopCalled, last_attempt>>
building == <<builder, product, calls>>

Range(s) == {s[i] : i \in 1..Len(s)}

(* ------------------------------------------------------------------ *)
(* WidgetData and Widget                                               *)
(* ------------------------------------------------------------------ *)
WidgetData(w, d, e) ==
    [widget_id |-> w, data |-> d, timestamp |-> now, error |-> e]

\* Widget._last_data of a widget that was never refreshed.
NoData == [widget_id |-> None, data |-> NoValue, timestamp |-> Never, error |-> None]

\* What the data source does when invoked (or when its coroutine resolves):
\* it returns a value or raises.
Outcomes ==
    [kind : {"value"}, v : Values, e : {None}]
        \cup [kind : {"raise"}, v : {NoValue}, e : Errors]

NoOutcome == [kind |-> "none", v |-> NoValue, e |-> None]

\* A refresh() that loses the message of the exception.
RefreshResultLosesError(w, o) ==
    IF o.kind = "value"
        THEN WidgetData(w, o.v, None)
        ELSE WidgetData(w, NoValue, None)

\* The WidgetData that refresh() returns for an outcome of the data source.
RefreshResult(w, o) ==
    IF o.kind = "value"
        THEN WidgetData(w, o.v, None)
        ELSE WidgetData(w, NoValue, o.e)

\* A refresh() that stores the WidgetData of a failure as the last result.
StoredDataOnFailure(w, o) ==
    [last_data EXCEPT ![w] = RefreshResult(w, o)]

\* Widget._last_data after refresh() with the outcome o.
StoredData(w, o) ==
    IF o.kind = "value"
        THEN [last_data EXCEPT ![w] = WidgetData(w, o.v, None)]
        ELSE last_data

\* A refresh() that stamps the time of every attempt, failed or not.
StoredRefreshOnAttempt(w, o) ==
    [last_refresh EXCEPT ![w] = now]

\* Widget._last_refresh after refresh() with the outcome o.
StoredRefresh(w, o) ==
    IF o.kind = "value"
        THEN [last_refresh EXCEPT ![w] = now]
        ELSE last_refresh

\* A needs_refresh() that tests "never refreshed" before the manual mode.
needs_refresh_never_first(w) ==
    IF last_refresh[w] = Never THEN TRUE
    ELSE IF refresh_mode[w] = "manual" THEN FALSE
    ELSE (now - last_refresh[w]) >= refresh_interval[w]

\* A needs_refresh() without the test of the manual mode.
needs_refresh_no_manual(w) ==
    IF last_refresh[w] = Never THEN TRUE
    ELSE (now - last_refresh[w]) >= refresh_interval[w]

needs_refresh(w) ==
    IF refresh_mode[w] = "manual" THEN FALSE
    ELSE IF last_refresh[w] = Never THEN TRUE
    ELSE (now - last_refresh[w]) >= refresh_interval[w]

get_data(w) == last_data[w]

to_dict(w) ==
    [id |-> w,
     data |-> IF last_data[w] # NoData THEN last_data[w].data ELSE NoValue,
     timestamp |-> IF last_data[w] # NoData THEN last_data[w].timestamp ELSE Never,
     error |-> IF last_data[w] # NoData THEN last_data[w].error ELSE None]

(* ------------------------------------------------------------------ *)
(* Dashboard: the widget mapping and its iteration                     *)
(* ------------------------------------------------------------------ *)
\* The keys of a dict, and len() of it.
Keys(entries) == Range(entries) \ {Tomb}
Used(entries) == Cardinality(Keys(entries))

\* The place of the first live entry after place i, or 0 when there is none.
NextLive(entries, i) ==
    IF \E j \in (i + 1)..Len(entries) : entries[j] # Tomb
        THEN CHOOSE j \in (i + 1)..Len(entries) :
                /\ entries[j] # Tomb
                /\ \A k \in (i + 1)..(j - 1) : entries[k] = Tomb
        ELSE 0

\* Dashboard.get_data()["widgets"]
Snapshot(d) == [w \in Keys(widgets[d]) |-> to_dict(w)]

NoSnapshot == [w \in {} |-> to_dict(w)]
NoResults == [w \in {} |-> NoData]
NoOutcomes == [w \in {} |-> NoOutcome]

Put(results, w, wd) ==
    [x \in DOMAIN results \cup {w} |-> IF x = w THEN wd ELSE results[x]]

(* ------------------------------------------------------------------ *)
(* Flows of control                                                    *)
(* ------------------------------------------------------------------ *)
\* A flow that is not inside any call.
Idle ==
    [pc |-> "idle", kind |-> "none", dash |-> None, dpos |-> 0, dsize |-> 0,
     wpos |-> 0, wsize |-> 0, cur |-> None, results |-> NoResults,
     due |-> {}, skipped |-> {}, outs |-> NoOutcomes, late |-> FALSE]

\* The record of an operation, for ev.
Event(op, t) ==
    [op |-> op, task |-> t, id |-> None, w |-> None, out |-> NoOutcome,
     wd |-> NoData, results |-> NoResults, snap |-> NoSnapshot, found |-> FALSE,
     due |-> {}, skipped |-> {}, outs |-> NoOutcomes]

(* ------------------------------------------------------------------ *)
(* Initial states                                                      *)
(* ------------------------------------------------------------------ *)
\* Widget(config) for every widget and DashboardManager(): nothing refreshed,
\* nothing registered, no flow inside a call.
Constructed ==
    /\ now = 0
    /\ last_data = [w \in WidgetIds |-> NoData]
    /\ last_refresh = [w \in WidgetIds |-> Never]
    /\ dashboards = <<>>
    /\ running = FALSE
    /\ task = [t \in Tasks |-> Idle]
    /\ ev = Event("init", Api)
    /\ stopCalled = FALSE
    /\ last_attempt = [w \in WidgetIds |-> Never]
    /\ builder = [widgets |-> <<>>, layout |-> <<>>]
    /\ product = [built |-> FALSE, widgets |-> <<>>]
    /\ calls = [added |-> <<>>, rows |-> <<>>]

\* Dashboard(config) for every dashboard, with no widget yet; the widgets
\* have any configuration.
Init ==
    /\ Constructed
    /\ refresh_mode \in [WidgetIds -> RefreshMode]
    /\ refresh_interval \in [WidgetIds -> Intervals]
    /\ widgets = [d \in DashIds |-> <<>>]

\* The dashboards as a builder leaves them: "main" with every widget, in the
\* order of the calls, and "ops" with the first of them.
Built ==
    [d \in DashIds |->
        IF d = "main" THEN BuildOrder ELSE <<BuildOrder[1]>>]

\* Time passes.
Tick ==
    /\ now < MaxTime
    /\ now' = now + 1
    /\ ev' = Event("tick", Api)
    /\ UNCHANGED <<config, building, wstate, widgets, dashboards, running, task, history>>

(* ------------------------------------------------------------------ *)
(* Widget.refresh                                                      *)
(* ------------------------------------------------------------------ *)
\* refresh() of w returns, the data source having had the outcome o.
Refreshed(w, o) ==
    /\ last_data' = StoredData(w, o)
    /\ last_refresh' = StoredRefresh(w, o)
    /\ last_attempt' = [last_attempt EXCEPT ![w] = now]
    /\ UNCHANGED <<now, config, building, widgets, dashboards, running, stopCalled>>

\* The flow t after the refresh() it called on w returned wd: a direct caller
\* has its result; a pass stores it in results and goes on with its loop.
AfterRefresh(t, w, o) ==
    IF task[t].kind = "widget"
        THEN Idle
        ELSE [task[t] EXCEPT !.pc = "forwidget", !.cur = None,
                             !.results = Put(@, w, RefreshResult(w, o)),
                             !.outs = Put(@, w, o)]

\* A caller awaits widget.refresh(), and the data source answers at once.
WidgetRefresh(w, o) ==
    /\ task[Api].pc = "idle"
    /\ Refreshed(w, o)
    /\ ev' = [Event("refresh", Api) EXCEPT !.w = w, !.out = o,
                                           !.wd = RefreshResult(w, o)]
    /\ UNCHANGED task

\* A caller awaits widget.refresh(), and the data source returns a coroutine:
\* the flow is suspended at line 74.
WidgetRefreshAwait(w) ==
    /\ task[Api].pc = "idle"
    /\ task' = [task EXCEPT ![Api] = [Idle EXCEPT !.pc = "await", !.kind = "widget",
                                                  !.cur = w]]
    /\ ev' = [Event("suspend", Api) EXCEPT !.w = w]
    /\ UNCHANGED <<now, config, building, wstate, widgets, dashboards, running, history>>

\* The coroutine of the data source resolves, with a value or an exception,
\* and refresh() runs to its return.
Resume(t, o) ==
    /\ task[t].pc = "await"
    /\ Refreshed(task[t].cur, o)
    /\ task' = [task EXCEPT ![t] = AfterRefresh(t, task[t].cur, o)]
    /\ ev' = [Event("refresh", t) EXCEPT !.id = task[t].dash, !.w = task[t].cur,
                                         !.out = o,
                                         !.wd = RefreshResult(task[t].cur, o)]

(* ------------------------------------------------------------------ *)
(* Dashboard                                                           *)
(* ------------------------------------------------------------------ *)
\* add_widget: a new key is appended to the dict; the value of a key that is
\* there is replaced in place.
AddWidget(d, w) ==
    /\ w \in Keys(widgets[d]) \/ Len(widgets[d]) < MaxEntries
    /\ widgets' = [widgets EXCEPT ![d] =
                      IF w \in Keys(widgets[d]) THEN @ ELSE Append(@, w)]
    /\ ev' = [Event("add_widget", Api) EXCEPT !.id = d, !.w = w]
    /\ UNCHANGED <<now, config, building, wstate, dashboards, running, task, history>>

\* remove_widget: the entry is deleted, and True is returned, when the key is
\* there; False is returned otherwise.
RemoveWidget(d, w) ==
    /\ widgets' = [widgets EXCEPT ![d] =
                      [i \in 1..Len(@) |-> IF @[i] = w THEN Tomb ELSE @[i]]]
    /\ ev' = [Event("remove_widget", Api) EXCEPT !.id = d, !.w = w,
                                                 !.found = (w \in Keys(widgets[d]))]
    /\ UNCHANGED <<now, config, building, wstate, dashboards, running, task, history>>

\* The flow t enters refresh_all ("all") or refresh_stale ("stale") of d:
\* results = {} and the iterator of self.widgets.items() is made.
EnterPass(t, kind, d) ==
    [task[t] EXCEPT !.pc = "forwidget", !.kind = kind, !.dash = d, !.wpos = 0,
                    !.wsize = Used(widgets[d]), !.cur = None,
                    !.results = NoResults, !.due = {}, !.skipped = {},
                    !.outs = NoOutcomes]

\* A loop that tests the flag after each dashboard, and abandons the pass
\* when stop_auto_refresh was called.
LeavePassUnlessStopped(t) ==
    IF t = Api
        THEN Idle
        ELSE [task[t] EXCEPT !.pc = IF running THEN "fordash" ELSE "while",
                             !.kind = "auto", !.dash = None,
                             !.wpos = 0, !.wsize = 0, !.cur = None,
                             !.results = NoResults, !.due = {}, !.skipped = {},
                             !.outs = NoOutcomes]

\* The flow t after its pass returned: a caller is idle again, the
\* auto-refresh loop goes on with its loop over the dashboards.
LeavePass(t) ==
    IF t = Api
        THEN Idle
        ELSE [task[t] EXCEPT !.pc = "fordash", !.kind = "auto", !.dash = None,
                             !.wpos = 0, !.wsize = 0, !.cur = None,
                             !.results = NoResults, !.due = {}, !.skipped = {},
                             !.outs = NoOutcomes]

\* The flow t after an exception left its call: a caller has the exception,
\* the coroutine of start_auto_refresh is over.
Raised(t) ==
    IF t = Api THEN Idle ELSE [Idle EXCEPT !.pc = "raised", !.late = task[t].late]

InPass(t) == task[t].pc = "forwidget"

\* next() of the dict iterator finds that the dict changed size: RuntimeError.
PassRaise(t) ==
    /\ InPass(t)
    /\ Used(widgets[task[t].dash]) # task[t].wsize
    /\ task' = [task EXCEPT ![t] = Raised(t)]
    /\ ev' = [Event("RuntimeError", t) EXCEPT !.id = task[t].dash]
    /\ UNCHANGED <<now, config, building, wstate, widgets, dashboards, running, history>>

\* The iterator is exhausted: the pass returns results.
PassReturn(t) ==
    /\ InPass(t)
    /\ Used(widgets[task[t].dash]) = task[t].wsize
    /\ NextLive(widgets[task[t].dash], task[t].wpos) = 0
    /\ task' = [task EXCEPT ![t] = LeavePass(t)]
    /\ ev' = [Event(task[t].kind, t) EXCEPT !.id = task[t].dash, !.found = TRUE,
                                            !.results = task[t].results,
                                            !.due = task[t].due,
                                            !.skipped = task[t].skipped,
                                            !.outs = task[t].outs]
    /\ UNCHANGED <<now, config, building, wstate, widgets, dashboards, running, history>>

\* The widget that next() of the iterator yields to the flow t.
NextWidget(t) ==
    widgets[task[t].dash][NextLive(widgets[task[t].dash], task[t].wpos)]

HasNext(t) ==
    /\ InPass(t)
    /\ Used(widgets[task[t].dash]) = task[t].wsize
    /\ NextLive(widgets[task[t].dash], task[t].wpos) # 0

\* A refresh_all that skips the widgets that are not due, as refresh_stale does.
RefreshesOnlyStale(kind, w) == needs_refresh(w)

\* A refresh_stale that refreshes every widget, as refresh_all does.
RefreshesAlways(kind, w) == TRUE

\* Whether a pass of this kind refreshes the widget w it has reached.
Refreshes(kind, w) == kind = "all" \/ needs_refresh(w)

\* The flow t with its iterator moved to the next widget; due and skipped keep
\* the widgets whose needs_refresh() was true, or false, when the pass reached
\* them.
Advanced(t) ==
    [task[t] EXCEPT !.wpos = NextLive(widgets[task[t].dash], task[t].wpos),
                    !.due = IF needs_refresh(NextWidget(t))
                                THEN @ \cup {NextWidget(t)} ELSE @,
                    !.skipped = IF Refreshes(task[t].kind, NextWidget(t))
                                    THEN @ ELSE @ \cup {NextWidget(t)}]

\* refresh_stale reaches a widget whose needs_refresh() is false.
PassSkip(t) ==
    /\ HasNext(t)
    /\ ~Refreshes(task[t].kind, NextWidget(t))
    /\ task' = [task EXCEPT ![t] = Advanced(t)]
    /\ ev' = [Event("skip", t) EXCEPT !.id = task[t].dash, !.w = NextWidget(t)]
    /\ UNCHANGED <<now, config, building, wstate, widgets, dashboards, running, history>>

\* The pass reaches a widget it refreshes, and the data source answers at once.
PassRefresh(t, o) ==
    /\ HasNext(t)
    /\ Refreshes(task[t].kind, NextWidget(t))
    /\ Refreshed(NextWidget(t), o)
    /\ task' = [task EXCEPT ![t] =
                   [Advanced(t) EXCEPT
                       !.results = Put(@, NextWidget(t), RefreshResult(NextWidget(t), o)),
                       !.outs = Put(@, NextWidget(t), o)]]
    /\ ev' = [Event("refresh", t) EXCEPT !.id = task[t].dash, !.w = NextWidget(t),
                                         !.out = o,
                                         !.wd = RefreshResult(NextWidget(t), o)]

\* The pass reaches a widget it refreshes, and the data source returns a
\* coroutine: the flow is suspended inside widget.refresh().
PassAwait(t) ==
    /\ HasNext(t)
    /\ Refreshes(task[t].kind, NextWidget(t))
    /\ task' = [task EXCEPT ![t] =
                   [Advanced(t) EXCEPT !.pc = "await", !.cur = NextWidget(t)]]
    /\ ev' = [Event("suspend", t) EXCEPT !.id = task[t].dash, !.w = NextWidget(t)]
    /\ UNCHANGED <<now, config, building, wstate, widgets, dashboards, running, history>>

\* A caller awaits dashboard.refresh_all().
RefreshAll(d) ==
    /\ task[Api].pc = "idle"
    /\ task' = [task EXCEPT ![Api] = EnterPass(Api, "all", d)]
    /\ ev' = [Event("enter", Api) EXCEPT !.id = d]
    /\ UNCHANGED <<now, config, building, wstate, widgets, dashboards, running, history>>

\* A caller awaits dashboard.refresh_stale().
RefreshStale(d) ==
    /\ task[Api].pc = "idle"
    /\ task' = [task EXCEPT ![Api] = EnterPass(Api, "stale", d)]
    /\ ev' = [Event("enter", Api) EXCEPT !.id = d]
    /\ UNCHANGED <<now, config, building, wstate, widgets, dashboards, running, history>>

(* ------------------------------------------------------------------ *)
(* DashboardManager                                                    *)
(* ------------------------------------------------------------------ *)
\* self.dashboards.get(dashboard_id) finds a dashboard.
Registered(id) == id \in Range(dashboards)

\* register: a new key is appended to the registry; a key that is there
\* keeps its place.
Register(d) ==
    /\ dashboards' = IF Registered(d) THEN dashboards ELSE Append(dashboards, d)
    /\ ev' = [Event("register", Api) EXCEPT !.id = d]
    /\ UNCHANGED <<now, config, building, wstate, widgets, running, task, history>>

\* get(dashboard_id)
ManagerGet(id) ==
    /\ ev' = [Event("get", Api) EXCEPT !.id = id, !.found = Registered(id)]
    /\ UNCHANGED <<now, config, building, wstate, widgets, dashboards, running, task,
                   history>>

\* get_data(dashboard_id)
ManagerGetData(id) ==
    /\ ev' = [Event("get_data", Api) EXCEPT
                 !.id = id, !.found = Registered(id),
                 !.snap = IF Registered(id) THEN Snapshot(id) ELSE NoSnapshot]
    /\ UNCHANGED <<now, config, building, wstate, widgets, dashboards, running, task,
                   history>>

\* A refresh(dashboard_id) that finds every dashboard there is, registered
\* or not.
ManagerRefreshTaskUnregistered(id) ==
    IF id \in DashIds THEN EnterPass(Api, "all", id) ELSE Idle

\* Where a caller of refresh(dashboard_id) is after the lookup: inside
\* refresh_all of the dashboard, or back with None.
ManagerRefreshTask(id) ==
    IF Registered(id) THEN EnterPass(Api, "all", id) ELSE Idle

\* A caller awaits refresh(dashboard_id).
ManagerRefresh(id) ==
    /\ task[Api].pc = "idle"
    /\ task' = [task EXCEPT ![Api] = ManagerRefreshTask(id)]
    /\ ev' = [Event("refresh_lookup", Api) EXCEPT !.id = id,
                                                  !.found = Registered(id)]
    /\ UNCHANGED <<now, config, building, wstate, widgets, dashboards, running, history>>

\* The coroutine of start_auto_refresh takes its first step:
\* self._running = True. Each call of start_auto_refresh is a flow of its own.
StartAutoRefresh(l) ==
    /\ task[l].pc = "idle"
    /\ running' = TRUE
    /\ stopCalled' = FALSE
    /\ task' = [task EXCEPT ![l] = [Idle EXCEPT !.pc = "while", !.kind = "auto"]]
    /\ ev' = Event("start_auto_refresh", l)
    /\ UNCHANGED <<now, config, building, wstate, widgets, dashboards, last_attempt>>

\* self._running after stop_auto_refresh.
StoppedFlag == FALSE

\* stop_auto_refresh
StopAutoRefresh ==
    /\ running' = StoppedFlag
    /\ stopCalled' = TRUE
    /\ ev' = Event("stop_auto_refresh", Api)
    /\ UNCHANGED <<now, config, building, wstate, widgets, dashboards, task, last_attempt>>

\* A loop that never looks at the flag: while True.
LoopContinuesForever == TRUE

\* The test of the while loop: whether the loop goes into another pass.
LoopContinues == running

\* while self._running holds: a pass begins, with the iterator of
\* self.dashboards.values(). late keeps whether stop had been called by then.
LoopPass(l) ==
    /\ task[l].pc = "while"
    /\ LoopContinues
    /\ task' = [task EXCEPT ![l] = [@ EXCEPT !.pc = "fordash", !.dpos = 0,
                                             !.dsize = Len(dashboards),
                                             !.late = stopCalled]]
    /\ ev' = Event("pass", l)
    /\ UNCHANGED <<now, config, building, wstate, widgets, dashboards, running, history>>

\* while self._running fails: start_auto_refresh returns.
LoopExit(l) ==
    /\ task[l].pc = "while"
    /\ ~LoopContinues
    /\ task' = [task EXCEPT ![l] = [Idle EXCEPT !.pc = "done"]]
    /\ ev' = Event("exit", l)
    /\ UNCHANGED <<now, config, building, wstate, widgets, dashboards, running, history>>

\* next() of the registry's iterator finds that the registry changed size.
LoopRaise(l) ==
    /\ task[l].pc = "fordash"
    /\ Len(dashboards) # task[l].dsize
    /\ task' = [task EXCEPT ![l] = Raised(l)]
    /\ ev' = Event("RuntimeError", l)
    /\ UNCHANGED <<now, config, building, wstate, widgets, dashboards, running, history>>

\* The loop over the dashboards reaches the next one and enters refresh_stale.
LoopRefreshStale(l) ==
    /\ task[l].pc = "fordash"
    /\ Len(dashboards) = task[l].dsize
    /\ task[l].dpos < Len(dashboards)
    /\ task' = [task EXCEPT ![l] =
                   [EnterPass(l, "stale", dashboards[task[l].dpos + 1])
                       EXCEPT !.dpos = task[l].dpos + 1]]
    /\ ev' = [Event("enter", l) EXCEPT !.id = dashboards[task[l].dpos + 1]]
    /\ UNCHANGED <<now, config, building, wstate, widgets, dashboards, running, history>>

\* Every dashboard was visited: the flow is suspended in asyncio.sleep(interval).
LoopSleep(l) ==
    /\ task[l].pc = "fordash"
    /\ Len(dashboards) = task[l].dsize
    /\ task[l].dpos = Len(dashboards)
    /\ task' = [task EXCEPT ![l] = [@ EXCEPT !.pc = "sleep"]]
    /\ ev' = Event("sleep", l)
    /\ UNCHANGED <<now, config, building, wstate, widgets, dashboards, running, history>>

\* asyncio.sleep(interval) returns.
LoopWake(l) ==
    /\ task[l].pc = "sleep"
    /\ task' = [task EXCEPT ![l] = [@ EXCEPT !.pc = "while"]]
    /\ ev' = Event("wake", l)
    /\ UNCHANGED <<now, config, building, wstate, widgets, dashboards, running, history>>

(* ------------------------------------------------------------------ *)
(* DashboardBuilder                                                    *)
(* ------------------------------------------------------------------ *)
\* The types of widget that the builder has a method for.
BuilderTypes == {"metric", "chart", "table", "gauge"}

\* Widget(config) as made by a widget-add call: n tells the objects of
\* different calls apart, also when they have the same id.
NewWidget(type, id) ==
    [id |-> id, type |-> type, n |-> Len(builder.widgets) + 1]

\* metric, chart, table and gauge: self.widgets.append(Widget(config)), with
\* no test of the id.
AddOfType(type, id) ==
    /\ Len(builder.widgets) < MaxCalls
    /\ builder' = [builder EXCEPT !.widgets = Append(@, NewWidget(type, id))]
    /\ calls' = [calls EXCEPT !.added = Append(@, id)]
    /\ ev' = [Event(type, Api) EXCEPT !.w = id]
    /\ UNCHANGED <<now, config, wstate, widgets, dashboards, running, task,
                   history, product>>

metric(id) == AddOfType("metric", id)
chart(id) == AddOfType("chart", id)
table(id) == AddOfType("table", id)
gauge(id) == AddOfType("gauge", id)

\* The argument lists of row(...) that are tried: no id, one id, two ids in
\* either order, and the same id twice.
RowArgs ==
    {<<>>, <<"chart">>, <<"users", "revenue">>, <<"revenue", "users">>,
     <<"chart", "chart">>}

\* A row() that puts the new row before the others.
WithRowFirst(layout, ids) == <<ids>> \o layout

\* self._layout.append(list(widget_ids))
WithRow(layout, ids) == Append(layout, ids)

row(ids) ==
    /\ Len(builder.layout) < MaxRows
    /\ builder' = [builder EXCEPT !.layout = WithRow(@, ids)]
    /\ calls' = [calls EXCEPT !.rows = Append(@, ids)]
    /\ ev' = Event("row", Api)
    /\ UNCHANGED <<now, config, wstate, widgets, dashboards, running, task,
                   history, product>>

\* An add_widget that keeps the widget a key already has.
SetItemKeepsFirst(entries, wdg) ==
    IF \E i \in 1..Len(entries) : entries[i].id = wdg.id
        THEN entries
        ELSE Append(entries, wdg)

\* add_widget on the dict of the new Dashboard: self.widgets[widget.config.id]
\* = widget replaces the value of a key that is there, in its place, and
\* appends a new key.
SetItem(entries, wdg) ==
    IF \E i \in 1..Len(entries) : entries[i].id = wdg.id
        THEN [i \in 1..Len(entries) |->
                 IF entries[i].id = wdg.id THEN wdg ELSE entries[i]]
        ELSE Append(entries, wdg)

\* The dict after add_widget of the first k widgets of the builder's list.
RECURSIVE Populated(_, _)
Populated(ws, k) ==
    IF k = 0 THEN <<>> ELSE SetItem(Populated(ws, k - 1), ws[k])

\* build: the new Dashboard gets the builder's config, whose layout is the
\* list object self._layout itself, and every widget of self.widgets.
build ==
    /\ product' = [built |-> TRUE,
                   widgets |-> Populated(builder.widgets, Len(builder.widgets))]
    /\ ev' = Event("build", Api)
    /\ UNCHANGED <<now, config, wstate, widgets, dashboards, running, task,
                   history, builder, calls>>

\* The keys of the built Dashboard's dict, and get_data()["layout"] of it.
ProductKeys == {product.widgets[i].id : i \in 1..Len(product.widgets)}
ProductLayout == IF product.built THEN builder.layout ELSE <<>>

(* ------------------------------------------------------------------ *)
(* The program: every operation, by any caller. The specifications     *)
(* that follow are this one with fewer callers, from states it reaches *)
(* ------------------------------------------------------------------ *)
Next ==
    \/ Tick
    \/ \E w \in WidgetIds, o \in Outcomes : WidgetRefresh(w, o)
    \/ \E w \in WidgetIds : WidgetRefreshAwait(w)
    \/ \E t \in Tasks, o \in Outcomes : Resume(t, o)
    \/ \E d \in DashIds, w \in WidgetIds : AddWidget(d, w)
    \/ \E d \in DashIds, w \in WidgetIds : RemoveWidget(d, w)
    \/ \E t \in Tasks : PassRaise(t)
    \/ \E t \in Tasks : PassReturn(t)
    \/ \E t \in Tasks : PassSkip(t)
    \/ \E t \in Tasks, o \in Outcomes : PassRefresh(t, o)
    \/ \E t \in Tasks : PassAwait(t)
    \/ \E d \in DashIds : RefreshAll(d)
    \/ \E d \in DashIds : RefreshStale(d)
    \/ \E d \in DashIds : Register(d)
    \/ \E id \in LookupIds : ManagerGet(id)
    \/ \E id \in LookupIds : ManagerGetData(id)
    \/ \E id \in LookupIds : ManagerRefresh(id)
    \/ \E l \in Loops : StartAutoRefresh(l)
    \/ StopAutoRefresh
    \/ \E l \in Loops : LoopPass(l)
    \/ \E l \in Loops : LoopExit(l)
    \/ \E l \in Loops : LoopRaise(l)
    \/ \E l \in Loops : LoopRefreshStale(l)
    \/ \E l \in Loops : LoopSleep(l)
    \/ \E l \in Loops : LoopWake(l)
    \/ \E id \in WidgetIds : metric(id)
    \/ \E id \in WidgetIds : chart(id)
    \/ \E id \in WidgetIds : table(id)
    \/ \E id \in WidgetIds : gauge(id)
    \/ \E ids \in RowArgs : row(ids)
    \/ build

Spec == Init /\ [][Next]_vars

(* ------------------------------------------------------------------ *)
(* The widget alone: callers that only refresh widgets, of any         *)
(* configuration, as time passes                                       *)
(* ------------------------------------------------------------------ *)
\* The widget under study has any configuration; the others have the
\* defaults of WidgetConfig's mode, and the longest interval.
Studied == BuildOrder[1]

InitWidget ==
    /\ Constructed
    /\ refresh_mode \in [WidgetIds -> RefreshMode]
    /\ refresh_interval \in [WidgetIds -> Intervals]
    /\ \A w \in WidgetIds \ {Studied} :
          refresh_mode[w] = "interval" /\ refresh_interval[w] = MaxInterval
    /\ widgets = [d \in DashIds |-> <<>>]

NextWidgetOnly ==
    \/ Tick
    \/ \E o \in Outcomes : WidgetRefresh(Studied, o)
    \/ WidgetRefreshAwait(Studied)
    \/ \E o \in Outcomes : Resume(Api, o)

SpecWidget == InitWidget /\ [][NextWidgetOnly]_vars

(* ------------------------------------------------------------------ *)
(* Built dashboards: one widget of each refresh mode                   *)
(* ------------------------------------------------------------------ *)
ModeOf(w) ==
    CASE w = "users" -> "interval"
      [] w = "revenue" -> "manual"
      [] OTHER -> "realtime"

IntervalOf(w) ==
    CASE w = "users" -> MaxInterval
      [] w = "revenue" -> 0
      [] OTHER -> 1

InitBuilt ==
    /\ Constructed
    /\ refresh_mode = [w \in WidgetIds |-> ModeOf(w)]
    /\ refresh_interval = [w \in WidgetIds |-> IntervalOf(w)]
    /\ widgets = Built

\* The data sources of the built dashboards return one value or raise one
\* error.
Answers == {o \in Outcomes : o.v \in {NoValue, 1} /\ o.e \in {None, "timeout"}}

(* ------------------------------------------------------------------ *)
(* One caller that runs passes over the built dashboards, as time      *)
(* passes                                                              *)
(* ------------------------------------------------------------------ *)
NextDashboard ==
    \/ Tick
    \/ \E d \in DashIds : RefreshAll(d)
    \/ \E d \in DashIds : RefreshStale(d)
    \/ PassReturn(Api)
    \/ PassSkip(Api)
    \/ \E o \in Answers : PassRefresh(Api, o)
    \/ PassAwait(Api)
    \/ \E o \in Answers : Resume(Api, o)

SpecDashboard == InitBuilt /\ [][NextDashboard]_vars

(* ------------------------------------------------------------------ *)
(* The manager: a caller of the registry and of the lookups; and the   *)
(* auto-refresh loops, started and stopped, beside registrations       *)
(* ------------------------------------------------------------------ *)
NextLookup ==
    \/ \E d \in DashIds : Register(d)
    \/ \E id \in LookupIds : ManagerGet(id)
    \/ \E id \in LookupIds : ManagerGetData(id)
    \/ \E id \in LookupIds : ManagerRefresh(id)
    \/ PassReturn(Api)
    \/ \E o \in Answers : PassRefresh(Api, o)
    \/ PassAwait(Api)
    \/ \E o \in Answers : Resume(Api, o)

SpecLookup == InitBuilt /\ [][NextLookup]_vars

NextLoop ==
    \/ \E d \in DashIds : Register(d)
    \/ \E l \in Loops : StartAutoRefresh(l)
    \/ StopAutoRefresh
    \/ \E l \in Loops : LoopPass(l)
    \/ \E l \in Loops : LoopExit(l)
    \/ \E l \in Loops : LoopRaise(l)
    \/ \E l \in Loops : LoopRefreshStale(l)
    \/ \E l \in Loops : LoopSleep(l)
    \/ \E l \in Loops : LoopWake(l)
    \/ \E l \in Loops : PassReturn(l)
    \/ \E l \in Loops : PassSkip(l)
    \/ \E l \in Loops, o \in Answers : PassRefresh(l, o)
    \/ \E l \in Loops : PassAwait(l)
    \/ \E l \in Loops, o \in Answers : Resume(l, o)

SpecLoop == InitBuilt /\ [][NextLoop]_vars

(* ------------------------------------------------------------------ *)
(* The service: one auto-refresh loop beside a caller that refreshes   *)
(* dashboards on demand and the manual widgets directly                *)
(* ------------------------------------------------------------------ *)
AutoLoop == "loop1"
Flows == {AutoLoop, Api}
ManualIds == {w \in WidgetIds : ModeOf(w) = "manual"}

NextService ==
    \/ \E d \in DashIds : Register(d)
    \/ StartAutoRefresh(AutoLoop)
    \/ StopAutoRefresh
    \/ LoopPass(AutoLoop)
    \/ LoopExit(AutoLoop)
    \/ LoopRaise(AutoLoop)
    \/ LoopRefreshStale(AutoLoop)
    \/ LoopSleep(AutoLoop)
    \/ LoopWake(AutoLoop)
    \/ \E d \in DashIds : RefreshAll(d)
    \/ \E d \in DashIds : RefreshStale(d)
    \/ \E w \in ManualIds, o \in Answers : WidgetRefresh(w, o)
    \/ \E t \in Flows : PassReturn(t)
    \/ \E t \in Flows : PassSkip(t)
    \/ \E t \in Flows, o \in Answers : PassRefresh(t, o)
    \/ \E t \in Flows : PassAwait(t)
    \/ \E t \in Flows, o \in Answers : Resume(t, o)

SpecService == InitBuilt /\ [][NextService]_vars

(* ------------------------------------------------------------------ *)
(* Administration: widgets added and removed while the auto-refresh    *)
(* loop runs its passes                                                *)
(* ------------------------------------------------------------------ *)
\* Where a coroutine can be when another flow of the event loop runs: before
\* its first step, at an await that suspended it, or after its end.
Suspended(t) == task[t].pc \in {"idle", "await", "sleep", "done", "raised"}

\* The administrator registers the dashboards before the loop is started, and
\* adds and removes widgets at the suspension points of the loop.
NextAdmin ==
    \/ \E d \in DashIds, w \in WidgetIds : Suspended(AutoLoop) /\ AddWidget(d, w)
    \/ \E d \in DashIds, w \in WidgetIds : Suspended(AutoLoop) /\ RemoveWidget(d, w)
    \/ \E d \in DashIds : task[AutoLoop].pc = "idle" /\ Register(d)
    \/ StartAutoRefresh(AutoLoop)
    \/ LoopPass(AutoLoop)
    \/ LoopRefreshStale(AutoLoop)
    \/ LoopSleep(AutoLoop)
    \/ LoopWake(AutoLoop)
    \/ PassRaise(AutoLoop)
    \/ PassReturn(AutoLoop)
    \/ PassSkip(AutoLoop)
    \/ \E o \in Answers : PassRefresh(AutoLoop, o)
    \/ PassAwait(AutoLoop)
    \/ \E o \in Answers : Resume(AutoLoop, o)

SpecAdmin == InitBuilt /\ [][NextAdmin]_vars

(* ------------------------------------------------------------------ *)
(* The event loop: the coroutines of start_auto_refresh scheduled       *)
(* cooperatively. A coroutine runs from one suspension point to the     *)
(* next without interruption; every coroutine that is ready runs in the *)
(* end, and every awaited data source and every sleep ends.             *)
(* ------------------------------------------------------------------ *)
\* No coroutine is between two suspension points: the event loop picks what
\* runs next.
Quiet == \A t \in Loops : Suspended(t)

\* The coroutine l may take a step: it is the one that runs, or none runs.
Turn(l) == \A t \in Loops \ {l} : Suspended(t)

\* A step of the coroutine l of start_auto_refresh.
LoopStep(l) ==
    /\ Turn(l)
    /\ \/ LoopPass(l)
       \/ LoopExit(l)
       \/ LoopRaise(l)
       \/ LoopRefreshStale(l)
       \/ LoopSleep(l)
       \/ LoopWake(l)
       \/ PassReturn(l)
       \/ PassSkip(l)
       \/ \E o \in Answers : PassRefresh(l, o)
       \/ PassAwait(l)
       \/ \E o \in Answers : Resume(l, o)

NextEventLoop ==
    \/ \E d \in DashIds : Quiet /\ Register(d)
    \/ \E l \in Loops : Quiet /\ StartAutoRefresh(l)
    \/ Quiet /\ StopAutoRefresh
    \/ \E l \in Loops : Turn(l) /\ LoopPass(l)
    \/ \E l \in Loops : Turn(l) /\ LoopExit(l)
    \/ \E l \in Loops : Turn(l) /\ LoopRaise(l)
    \/ \E l \in Loops : Turn(l) /\ LoopRefreshStale(l)
    \/ \E l \in Loops : Turn(l) /\ LoopSleep(l)
    \/ \E l \in Loops : Turn(l) /\ LoopWake(l)
    \/ \E l \in Loops : Turn(l) /\ PassReturn(l)
    \/ \E l \in Loops : Turn(l) /\ PassSkip(l)
    \/ \E l \in Loops, o \in Answers : Turn(l) /\ PassRefresh(l, o)
    \/ \E l \in Loops : Turn(l) /\ PassAwait(l)
    \/ \E l \in Loops, o \in Answers : Turn(l) /\ Resume(l, o)

SpecEventLoop ==
    /\ InitBuilt
    /\ [][NextEventLoop]_vars
    /\ \A l \in Loops : SF_vars(LoopStep(l))

(* ------------------------------------------------------------------ *)
(* The builder alone: widget-add calls, row calls and build(), in any  *)
(* order                                                               *)
(* ------------------------------------------------------------------ *)
\* No dashboard has a widget yet; the widgets have the defaults of
\* WidgetConfig's mode, and the longest interval.
InitBuilder ==
    /\ Constructed
    /\ refresh_mode = [w \in WidgetIds |-> "interval"]
    /\ refresh_interval = [w \in WidgetIds |-> MaxInterval]
    /\ widgets = [d \in DashIds |-> <<>>]

\* The builder is used as a fluent chain of metric, chart and row calls that
\* ends with build().
NextBuilder ==
    \/ \E id \in WidgetIds : ~product.built /\ metric(id)
    \/ \E id \in WidgetIds : ~product.built /\ chart(id)
    \/ \E ids \in RowArgs : ~product.built /\ row(ids)
    \/ ~product.built /\ build

SpecBuilder == InitBuilder /\ [][NextBuilder]_vars

(* ------------------------------------------------------------------ *)
(* Properties                                                          *)
(* ------------------------------------------------------------------ *)

\* C1: Widget.refresh() never propagates a failure of the data source. In
\* every state of the widget, a refresh() whose data source raises returns a
\* WidgetData of this widget with data null and error non-null, and one whose
\* data source returns v returns a WidgetData with data = v and error = null;
\* in both cases the caller has a result, not an exception.
RefreshNeverPropagates ==
    ev.op = "refresh" =>
        /\ ev.wd.widget_id = ev.w
        /\ ev.out.kind = "raise" =>
              ev.wd.data = NoValue /\ ev.wd.error # None /\ ev.wd.error = ev.out.e
        /\ ev.out.kind = "value" =>
              ev.wd.data = ev.out.v /\ ev.wd.error = None
        /\ task[ev.task].pc # "raised"

\* A refresh() whose data source raised, on a widget that held data.
RefreshFailedAfterSuccess ==
    /\ ev.op = "refresh"
    /\ ev.out.kind = "raise"
    /\ last_data[ev.w] # NoData

\* C2: a failed refresh() updates the staleness clock. Right after a refresh()
\* whose data source raised, on an interval widget with refresh_interval > 0,
\* needs_refresh() is false.
FailedAttemptUpdatesClock ==
    (/\ ev.op = "refresh"
     /\ ev.out.kind = "raise"
     /\ refresh_mode[ev.w] = "interval"
     /\ refresh_interval[ev.w] > 0)
        => ~needs_refresh(ev.w)

\* C3: a widget that failed to refresh shows the failure. Right after a
\* refresh() whose data source raised, get_data() is the WidgetData that
\* refresh() returned, and the widget's entry in the snapshot of every
\* dashboard that holds it has data null and error non-null.
FailedWidgetShowsError ==
    (ev.op = "refresh" /\ ev.out.kind = "raise") =>
        /\ get_data(ev.w) = ev.wd
        /\ \A d \in DashIds :
              ev.w \in Keys(widgets[d]) =>
                  /\ Snapshot(d)[ev.w].data = NoValue
                  /\ Snapshot(d)[ev.w].error # None

\* C4: failure isolation in refresh_all(). A refresh_all() that no mutation of
\* the widget mapping interleaves with returns a mapping whose keys are the
\* dashboard's widget ids, having invoked the data source of each; the result
\* of a widget whose data source raised carries the error, the result of one
\* whose data source returned carries its data; and the pass goes on after a
\* failure.
RefreshAllIsolatesFailures ==
    /\ ev.op = "all" =>
          /\ DOMAIN ev.results = Keys(widgets[ev.id])
          /\ DOMAIN ev.outs = Keys(widgets[ev.id])
          /\ \A w \in DOMAIN ev.results :
                /\ ev.outs[w].kind = "raise" =>
                      /\ ev.results[w].data = NoValue
                      /\ ev.results[w].error # None
                      /\ ev.results[w].error = ev.outs[w].e
                /\ ev.outs[w].kind = "value" =>
                      /\ ev.results[w].data = ev.outs[w].v
                      /\ ev.results[w].error = None
    /\ (ev.op = "refresh" /\ ev.id # None /\ ev.out.kind = "raise") =>
          /\ task[ev.task].pc = "forwidget"
          /\ ev.w \in DOMAIN task[ev.task].results

\* refresh_all() returned from a dashboard of three widgets, the second of
\* which failed while the first and the third succeeded.
RefreshAllReturnedMixed ==
    /\ ev.op = "all"
    /\ ev.id = "main"
    /\ DOMAIN ev.outs = WidgetIds
    /\ ev.outs["users"].kind = "value"
    /\ ev.outs["revenue"].kind = "raise"
    /\ ev.outs["chart"].kind = "value"

\* C5: refresh_stale() refreshes exactly the widgets whose needs_refresh() is
\* true when the pass reaches them. The keys of the mapping it returns are
\* those widgets; the widgets it skipped are the others, none of them is in
\* the mapping, and the step that skips a widget leaves the stored data and
\* the last-refresh timestamp of every widget as they were.
RefreshStaleExact ==
    /\ [](ev.op = "stale" =>
            /\ DOMAIN ev.results = ev.due
            /\ ev.skipped \cap DOMAIN ev.results = {}
            /\ ev.due \cup ev.skipped = Keys(widgets[ev.id]))
    /\ [][ev'.op = "skip" =>
            /\ last_data' = last_data
            /\ last_refresh' = last_refresh
            /\ task'[ev'.task].results = task[ev'.task].results]_vars

\* refresh_stale() returned having refreshed one widget and skipped another
\* that held data.
RefreshStaleSkippedOne ==
    /\ ev.op = "stale"
    /\ ev.due # {}
    /\ \E w \in ev.skipped : last_data[w] # NoData /\ refresh_mode[w] # "manual"

\* C6: needs_refresh() of a manual widget is false in every reachable state,
\* whatever the time elapsed, the refresh_interval, and whether the widget
\* was ever refreshed.
ManualNeverDue ==
    \A w \in WidgetIds : refresh_mode[w] = "manual" => ~needs_refresh(w)

\* A manual widget with refresh_interval 0 that was refreshed a while ago.
ManualLongAgo ==
    \E w \in WidgetIds :
        /\ refresh_mode[w] = "manual"
        /\ refresh_interval[w] = 0
        /\ last_refresh[w] # Never
        /\ now - last_refresh[w] >= 1

\* C7: for an interval widget with refresh_interval N, once refresh() has
\* returned, needs_refresh() is false right after it, and true exactly when at
\* least N seconds have passed since that refresh() (N > 0).
IntervalClockFromRefresh ==
    \A w \in WidgetIds :
        (/\ refresh_mode[w] = "interval"
         /\ refresh_interval[w] > 0
         /\ last_attempt[w] # Never)
            => (needs_refresh(w) <=> now - last_attempt[w] >= refresh_interval[w])

\* C8: a realtime widget is always due: needs_refresh() is true in every
\* state.
RealtimeAlwaysDue ==
    \A w \in WidgetIds : refresh_mode[w] = "realtime" => needs_refresh(w)

LookupMissIsValue ==
    [][(/\ ev'.op \in {"get", "get_data", "refresh_lookup"}
        /\ ev'.id \notin Range(dashboards))
          => /\ ev'.found = FALSE
             /\ ev'.snap = NoSnapshot
             /\ ev'.results = NoResults
             /\ UNCHANGED <<dashboards, widgets, wstate, last_attempt, task>>]_vars

\* refresh() of an id that is not registered returned None, while a registered
\* dashboard held refreshed widgets.
RefreshMissReturned ==
    /\ ev.op = "refresh_lookup"
    /\ ev.id \notin Range(dashboards)
    /\ ev.found = FALSE
    /\ dashboards # <<>>
    /\ \E w \in WidgetIds : last_data[w] # NoData

\* C19: in every state reached by refresh() calls with succeeding and failing
\* data sources, a widget holds a last result iff it holds a last-refresh
\* timestamp, the last result it holds has error null, and so the error
\* field of to_dict() is null.
StoredResultHasNoError ==
    \A w \in WidgetIds :
        /\ last_data[w] # NoData <=> last_refresh[w] # Never
        /\ last_data[w].error = None
        /\ last_data[w] # NoData =>
              /\ last_data[w].widget_id = w
              /\ last_data[w].timestamp = last_refresh[w]
        /\ to_dict(w).error = None

\* A widget that holds the result of a success and whose data source has
\* raised since, at a later time.
SuccessThenLaterFailure ==
    \E w \in WidgetIds :
        /\ last_data[w] # NoData
        /\ last_attempt[w] > last_refresh[w]

\* C20: a refresh() whose data source raises leaves the stored last result
\* and the last-refresh timestamp of the widget as they were, so get_data(),
\* to_dict() and needs_refresh() answer after the call as they did before it;
\* a widget that never succeeded and is not manual is still due.
FailedRefreshChangesNothing ==
    [][\A w \in WidgetIds :
          (ev'.op = "refresh" /\ ev'.w = w /\ ev'.out.kind = "raise") =>
              /\ UNCHANGED wstate
              /\ get_data(w)' = get_data(w)
              /\ to_dict(w)' = to_dict(w)
              /\ needs_refresh(w)' = needs_refresh(w)
              /\ (last_refresh[w] = Never /\ refresh_mode[w] # "manual") =>
                    needs_refresh(w)']_vars

\* A refresh() just failed on a widget that shows a value of an earlier time.
FailedRefreshKeptOldValue ==
    /\ ev.op = "refresh"
    /\ ev.out.kind = "raise"
    /\ last_data[ev.w] # NoData
    /\ last_data[ev.w].data = MaxValue
    /\ now > last_refresh[ev.w]
    /\ get_data(ev.w).timestamp < now

\* C17: a manual widget is never auto-refreshed. No step of a refresh_stale()
\* pass, whether a caller's or the auto-refresh loop's, invokes the data
\* source of a widget whose refresh_mode is manual, and the stored data and
\* last-refresh timestamp of such a widget change only in a refresh() made
\* by refresh_all() or called directly.
ManualNeverAutoRefreshed ==
    [][\A w \in WidgetIds :
          refresh_mode[w] = "manual" =>
              /\ (ev'.op \in {"refresh", "suspend"} /\ ev'.w = w) =>
                    /\ ev'.task \notin Loops
                    /\ ev'.id # None => task[ev'.task].kind = "all"
              /\ (ev'.op = "skip" /\ ev'.w = w) =>
                    task[ev'.task].kind = "stale"
              /\ (last_data'[w] # last_data[w] \/ last_refresh'[w] # last_refresh[w]) =>
                    /\ ev'.op = "refresh"
                    /\ ev'.w = w
                    /\ ev'.task = Api
                    /\ ev'.id = None \/ task[Api].kind = "all"]_vars

\* The auto-refresh loop just passed over a manual widget that holds data of
\* an on-demand refresh, in a pass that refreshed another widget.
LoopSkippedManualWithData ==
    /\ ev.op = "skip"
    /\ ev.task \in Loops
    /\ refresh_mode[ev.w] = "manual"
    /\ last_data[ev.w] # NoData
    /\ task[ev.task].due # {}

\* C12: the lock of a dashboard protects a pass from structural changes. When
\* add_widget or remove_widget of a dashboard is interleaved with a
\* refresh_all() or refresh_stale() pass over it, the pass does not fail: no
\* pass over a dashboard ends in an exception.
PassSurvivesMutation ==
    ~(ev.op = "RuntimeError" /\ ev.id \in DashIds)

\* C14: the auto-refresh loop is a single flow. After any sequence of
\* start_auto_refresh() and stop_auto_refresh() calls, at most one loop is
\* inside a pass: never are two coroutines of start_auto_refresh both between
\* the beginning of a pass and its sleep, and never are two of them suspended
\* in refresh() of the same widget.
SingleLoopFlow ==
    \A l1, l2 \in Loops :
        (/\ task[l1].pc \in {"fordash", "forwidget", "await"}
         /\ task[l2].pc \in {"fordash", "forwidget", "await"})
            => l1 = l2

\* C15: the loop ends on stop. If stop_auto_refresh() is called while a loop
\* started by start_auto_refresh() is running, and every data source answers
\* in finite time, the loop finds the flag cleared at its next test and the
\* coroutine of start_auto_refresh eventually ends.
LoopEndsAfterStop ==
    \A l \in Loops :
        (/\ ev.op = "stop_auto_refresh"
         /\ task[l].pc \in {"while", "fordash", "forwidget", "await", "sleep"})
            ~> task[l].pc \in {"done", "raised"}

\* C13: progress of the auto-refresh loop. While the loop is started and not
\* stopped, and every data source answers in finite time, every widget of a
\* registered dashboard whose needs_refresh() is true is eventually
\* refreshed by the loop: its data source is invoked in a pass, unless
\* stop_auto_refresh() is called first.
AutoRefreshProgress ==
    \A d \in DashIds, w \in WidgetIds :
        (/\ running
         /\ Registered(d)
         /\ w \in Keys(widgets[d])
         /\ needs_refresh(w))
            ~> \/ ~running
               \/ /\ ev.op \in {"refresh", "suspend"}
                  /\ ev.task \in Loops
                  /\ ev.w = w

\* C16: stop_auto_refresh() is not pre-emptive. The call changes the flag and
\* nothing else: no loop moves and no widget changes. A loop that is inside a
\* pass when it is called goes on with the pass: it leaves the pass only for
\* its sleep, after refresh_stale() was entered for every registered
\* dashboard, in registry order; on its way it skips no widget that is due;
\* and start_auto_refresh returns only from the test of the flag that
\* follows the sleep.
StopIsNotPreemptive ==
    [][/\ ev'.op = "stop_auto_refresh" => UNCHANGED <<task, wstate, widgets, dashboards>>
       /\ \A l \in Loops :
             /\ (/\ task[l].pc \in {"fordash", "forwidget", "await"}
                 /\ task'[l].pc \notin {"fordash", "forwidget", "await", "raised"})
                    => /\ task'[l].pc = "sleep"
                       /\ task[l].dpos = Len(dashboards)
                       /\ task[l].dsize = Len(dashboards)
             /\ (ev'.op = "enter" /\ ev'.task = l) =>
                    /\ task'[l].dpos = task[l].dpos + 1
                    /\ ev'.id = dashboards[task'[l].dpos]
             /\ (ev'.op = "skip" /\ ev'.task = l) => ~needs_refresh(ev'.w)
             /\ (task[l].pc # "done" /\ task'[l].pc = "done") =>
                    task[l].pc = "while" /\ ~running]_vars

\* A loop refreshed a widget of the second dashboard after stop_auto_refresh()
\* was called, in a pass that had begun before the call.
LoopRefreshedAfterStop ==
    /\ ev.op = "refresh"
    /\ ev.task \in Loops
    /\ stopCalled
    /\ ~running
    /\ ~task[ev.task].late
    /\ task[ev.task].dpos = 2

\* C11: the builder round trip. For every sequence of widget-add calls with
\* distinct ids and every sequence of row(...) calls, the Dashboard that
\* build() returns has as layout the rows in the order of the calls, each
\* row with its ids in the order of the arguments, and as keys of its widget
\* mapping the ids that were added, in the order of the calls.
BuilderRoundTrip ==
    (/\ ev.op = "build"
     /\ \A i, j \in 1..Len(calls.added) :
           calls.added[i] = calls.added[j] => i = j)
        => /\ ProductLayout = calls.rows
           /\ ProductKeys = Range(calls.added)
           /\ Len(product.widgets) = Len(calls.added)
           /\ \A i \in 1..Len(calls.added) :
                 product.widgets[i].id = calls.added[i]

\* build() returned after metric("users"), metric("revenue"),
\* chart("chart") and the rows ("users", "revenue") and ("chart").
BuiltTheExample ==
    /\ ev.op = "build"
    /\ calls.added = BuildOrder
    /\ calls.rows = << <<BuildOrder[1], BuildOrder[2]>>, <<BuildOrder[3]>> >>
    /\ product.widgets[3].type = "chart"

\* C18: duplicate ids are not rejected by the builder and the later one
\* wins. For every sequence of widget-add calls, the Dashboard that build()
\* returns maps each id to the widget created by the last add call that
\* used the id, and holds as many widgets as distinct ids were added.
LaterDuplicateWins ==
    ev.op = "build" =>
        /\ Len(builder.widgets) = Len(calls.added)
        /\ ProductKeys = Range(calls.added)
        /\ Len(product.widgets) = Cardinality(Range(calls.added))
        /\ \A i \in 1..Len(product.widgets) :
              /\ calls.added[product.widgets[i].n] = product.widgets[i].id
              /\ \A k \in 1..Len(calls.added) :
                    calls.added[k] = product.widgets[i].id =>
                        k <= product.widgets[i].n
              /\ product.widgets[i] = builder.widgets[product.widgets[i].n]

\* build() returned after three widget-add calls, the first and the last of
\* which used the same id with different types.
BuiltWithDuplicate ==
    /\ ev.op = "build"
    /\ Len(calls.added) = 3
    /\ calls.added[1] = calls.added[3]
    /\ calls.added[2] # calls.added[1]
    /\ builder.widgets[1].type # builder.widgets[3].type
    /\ Len(product.widgets) = 2

====
